---------------------------- MODULE Spec2Model ----------------------------
(***************************************************************************)
(* A model of main.py: the scene-to-prompt composer create_curator_prompt, *)
(* the simulated call generate_scene_content and the script's main block.  *)
(* Text is modelled by strings: Len, \o and SubSeq act on them character   *)
(* by character, so every prompt below is the exact text Python builds.    *)
(* A Python dict is a function whose DOMAIN is its set of keys; reading a  *)
(* key outside the DOMAIN raises KeyError.                                 *)
(***************************************************************************)
EXTENDS Naturals, Sequences, FiniteSets

VARIABLES
    pc,          \* where the interpreter / the caller stands
    host,        \* what compiles the file: the script compiler, or a host allowing top-level await
    name,        \* the module's __name__
    scene,       \* the scene dict the caller last passed (the object itself, after the call)
    seen,        \* an earlier create_curator_prompt call the caller kept to compare with
    last,        \* the last create_curator_prompt call: its argument as passed and its outcome
    ncalls,      \* create_curator_prompt calls made by the caller
    stdout,      \* what has been written to standard output, one entry per print
    ret,         \* the awaited generate_scene_content call: its argument and its outcome
    content_obj  \* the main block's json.loads result

vars == <<pc, host, name, scene, seen, last, ncalls, stdout, ret, content_obj>>

-----------------------------------------------------------------------------
(* Bounds of the model. *)

\* longest objects list of the generated scenes
MaxObjects == 2

\* create_curator_prompt calls one caller makes: three let the call it kept and
\* its last call have another call between them
MaxCalls == 3

-----------------------------------------------------------------------------
(* main.py 17-61: the scene literal. *)

scene_data ==
    [ scene_name |-> "Modern Loft Living Room",
      overall_style |-> "Minimalist, Industrial",
      lighting |-> [ type |-> "Natural, bright afternoon sun",
                     source |-> "Large floor-to-ceiling windows" ],
      objects |-> <<
        [ id |-> "sofa_01", name |-> "Leather Sofa",
          tags |-> <<"seating", "main furniture", "comfortable">>,
          material |-> "Distressed brown leather",
          position |-> "Center of the room, facing the windows" ],
        [ id |-> "table_01", name |-> "Concrete Coffee Table",
          tags |-> <<"table", "centerpiece", "functional">>,
          material |-> "Polished concrete with steel legs",
          position |-> "In front of the leather sofa" ],
        [ id |-> "plant_01", name |-> "Fiddle Leaf Fig",
          tags |-> <<"plant", "organic", "decoration", "life">>,
          material |-> "Green leaves, terracotta pot",
          position |-> "In the corner, near the windows" ],
        [ id |-> "lamp_01", name |-> "Arc Floor Lamp",
          tags |-> <<"lighting", "modern", "accent">>,
          material |-> "Brushed nickel",
          position |-> "Arching over the sofa from behind" ],
        [ id |-> "art_01", name |-> "Abstract Painting",
          tags |-> <<"art", "wall decor", "color accent">>,
          material |-> "Canvas with bold blue and yellow strokes",
          position |-> "On the exposed brick wall behind the sofa" ] >> ]

-----------------------------------------------------------------------------
(* Python primitives the composer uses. *)

\* dict: `k in d`
Has(d, k) == k \in DOMAIN d

\* no call made yet
NoCall == [kind |-> "none"]

\* an expression's outcome: a value, or a raised exception
Return(v) == [kind |-> "return", value |-> v]

Raise(e, a) == [kind |-> "raise", error |-> e, arg |-> a]

\* the first key of keys (read in this order) that dict d lacks; "" when it has them all
RECURSIVE FirstMissing(_, _)
FirstMissing(d, keys) ==
    IF keys = <<>> THEN ""
    ELSE IF ~Has(d, Head(keys)) THEN Head(keys)
    ELSE FirstMissing(d, Tail(keys))

\* str.join: sep.join(parts)
RECURSIVE Join(_, _)
Join(sep, parts) ==
    IF parts = <<>> THEN ""
    ELSE IF Len(parts) = 1 THEN parts[1]
    ELSE parts[1] \o sep \o Join(sep, Tail(parts))

-----------------------------------------------------------------------------
(* main.py 68-105: create_curator_prompt. *)

\* line 76: the keys the f-string reads from one object, in evaluation order
ObjectKeys == <<"name", "material", "position", "tags">>

\* variant: the tags joined by "," alone
ObjectLineTagsUnspaced(obj) ==
    "- " \o obj["name"] \o ": Made of " \o obj["material"]
         \o ". Positioned at: " \o obj["position"]
         \o ". Tags: " \o Join(",", obj["tags"]) \o "."

\* line 76: one object's line
ObjectLine(obj) ==
    "- " \o obj["name"] \o ": Made of " \o obj["material"]
         \o ". Positioned at: " \o obj["position"]
         \o ". Tags: " \o Join(", ", obj["tags"]) \o "."

\* variant: the lines in reverse list order
ObjectLinesReversed(objs) == [i \in 1..Len(objs) |-> ObjectLine(objs[Len(objs) + 1 - i])]

\* lines 75-78: the list comprehension, one line per object in list order
ObjectLines(objs) == [i \in 1..Len(objs) |-> ObjectLine(objs[i])]

\* the first n lines with every repeated line dropped
RECURSIVE DistinctLines(_, _)
DistinctLines(lines, n) ==
    IF n = 0 THEN <<>>
    ELSE IF \E j \in 1..(n - 1) : lines[j] = lines[n] THEN DistinctLines(lines, n - 1)
    ELSE Append(DistinctLines(lines, n - 1), lines[n])

\* variant: equal lines rendered once
object_descriptions_dedup(objs) ==
    Join("\n", DistinctLines(ObjectLines(objs), Len(objs)))

\* variant: an empty list rendered as a placeholder line
object_descriptions_placeholder(objs) ==
    IF objs = <<>> THEN "- None" ELSE Join("\n", ObjectLines(objs))

\* lines 75-78: object_descriptions
object_descriptions(objs) == Join("\n", ObjectLines(objs))

\* lines 75-78: the key whose lookup raises while the lines are built ("" if none):
\* the objects are rendered in order, so the first incomplete object decides
RECURSIVE ObjectsMissing(_)
ObjectsMissing(objs) ==
    IF objs = <<>> THEN ""
    ELSE IF FirstMissing(Head(objs), ObjectKeys) # ""
         THEN FirstMissing(Head(objs), ObjectKeys)
    ELSE ObjectsMissing(Tail(objs))

\* lines 85-87: the key whose lookup raises while the template is filled ("" if none)
TemplateMissing(s) ==
    IF FirstMissing(s, <<"scene_name", "overall_style", "lighting">>) # ""
    THEN FirstMissing(s, <<"scene_name", "overall_style", "lighting">>)
    ELSE FirstMissing(s["lighting"], <<"type", "source">>)

\* lines 80-85: the template up to the scene name
PromptHead ==
       "\n"
    \o "    **Persona Instruction:**\n"
    \o "    You are an expert virtual curator and interior design storyteller for a high-end spatial computing platform. Your task is to transform raw 3D scene data into a rich, evocative, and engaging narrative. Do not just list the objects. Instead, weave them into a cohesive story that describes the atmosphere, the lifestyle of the imagined owner, and the interplay between the elements.\n"
    \o "\n"
    \o "    **Contextual Scene Data:**\n"
    \o "    - Scene Name: "

\* variant: the keys named without their double quotes
KeysSentenceUnquoted ==
    "    Based on the data above, generate a JSON object with three distinct keys: title, narrative, and design_suggestions.\n"

\* line 92: the sentence naming the three keys of the answer
KeysSentence ==
    "    Based on the data above, generate a JSON object with three distinct keys: \"title\", \"narrative\", and \"design_suggestions\".\n"

\* lines 89-104: the template after the object block
PromptTail ==
       "\n"
    \o "\n"
    \o "    **Task & Output Structure:**\n"
    \o KeysSentence
    \o "\n"
    \o "    1.  **title**: Create a short, catchy, and descriptive title for this scene.\n"
    \o "    2.  **narrative**: Write a detailed, multi-paragraph story about the space.\n"
    \o "        - Start by describing the overall feeling and atmosphere created by the lighting and style.\n"
    \o "        - Describe how the main furniture pieces (like the sofa and table) anchor the space.\n"
    \o "        - Integrate the decorative elements (plant, art) into the narrative, explaining how they contribute to the mood.\n"
    \o "        - Imply the personality of the person who lives here through your description.\n"
    \o "    3.  **design_suggestions**: Provide three actionable design suggestions as a list of strings. These should be creative ideas to enhance the space further, based on the existing elements. For example, suggest adding a complementary texture, a specific type of rug, or another piece of decor.\n"
    \o "\n"
    \o "    **Constraint:**\n"
    \o "    Your final output must be a single, valid JSON object and nothing else. Do not include any explanatory text before or after the JSON.\n"
    \o "    "

\* lines 80-104: the f-string
Prompt(s) ==
    PromptHead \o s["scene_name"]
        \o "\n    - Dominant Style: " \o s["overall_style"]
        \o "\n    - Lighting Conditions: " \o s["lighting"]["type"]
        \o " from " \o s["lighting"]["source"]
        \o "\n    - Objects in Scene:\n    " \o object_descriptions(s["objects"])
        \o PromptTail

\* lines 75-105: what the call returns or raises: the object block is built first
\* (line 77 reads scene['objects']), then the template is filled
PromptOutcome(s) ==
    IF ~Has(s, "objects") THEN Raise("KeyError", "objects")
    ELSE IF ObjectsMissing(s["objects"]) # ""
         THEN Raise("KeyError", ObjectsMissing(s["objects"]))
    ELSE IF TemplateMissing(s) # "" THEN Raise("KeyError", TemplateMissing(s))
    ELSE Return(Prompt(s))

\* variant: the objects list is consumed while it is rendered
create_curator_prompt_consuming(s) ==
    [ scene |-> IF PromptOutcome(s).kind = "return" THEN [s EXCEPT !.objects = <<>>] ELSE s,
      outcome |-> PromptOutcome(s) ]

\* variant: a failed lookup is swallowed and the text built so far is returned
create_curator_prompt_partial(s) ==
    [ scene |-> s,
      outcome |-> IF PromptOutcome(s).kind = "raise" THEN Return(PromptHead)
                  ELSE PromptOutcome(s) ]

\* lines 68-105: the call's outcome and the argument dict as the call leaves it
\* (no statement of the function assigns to scene or to anything it holds)
create_curator_prompt(s) == [scene |-> s, outcome |-> PromptOutcome(s)]

-----------------------------------------------------------------------------
(* main.py 128-136: the mock response literal. *)

mock_narrative ==
       "As the bright afternoon sun streams through vast, floor-to-ceiling windows, it illuminates a space that is both raw and refined. This modern loft is a sanctuary of minimalist industrial design, where every object feels intentional. The centerpiece is a handsome, distressed brown leather sofa, its worn texture inviting you to sink in and relax. It faces the light, suggesting a resident who appreciates warmth and openness.\n"
    \o "\n"
    \o "In front of it, a polished concrete coffee table stands as a testament to functional art, its cool surface and steel legs providing a stark, beautiful contrast to the sofa's warmth. Life is breathed into the space by a tall Fiddle Leaf Fig, its vibrant green leaves reaching for the sun from a terracotta pot in the corner. Above, a brushed nickel arc lamp elegantly sweeps over the seating area, ready to provide a focused glow as day turns to night. The entire scene is anchored by a bold, abstract painting on the exposed brick wall, its energetic blue and yellow strokes infusing the calm space with a burst of creative spirit. This is clearly the home of a discerning individual with an eye for design and a love for uncluttered, light-filled living."

mock_response ==
    [ title |-> "Sun-Drenched Industrial Serenity",
      narrative |-> mock_narrative,
      design_suggestions |-> <<
        "Add a soft, high-pile wool rug in a neutral grey or cream color under the sofa and coffee table to soften the concrete and add textural warmth.",
        "Introduce a set of floating wooden shelves on the brick wall to display books or curated objects, adding a personal touch.",
        "Consider adding a single, comfortable armchair in a contrasting fabric like dark blue velvet to create a cozy reading nook." >> ]

\* lines 128-136: the literal's keys in insertion order (a dict keeps it)
mock_keys == <<"title", "narrative", "design_suggestions">>

-----------------------------------------------------------------------------
(* main.py 138: json.dumps(mock_response, indent=2), for the values the     *)
(* literal holds: a dict of str keys whose values are str or list of str.  *)

\* line 138: indent=2
JsonIndent == 2

\* the character at index i of text s
Ch(s, i) == SubSeq(s, i, i)

\* variant: line breaks written as they are
EscapeCharRaw(c) ==
    IF c = "\"" THEN "\\\""
    ELSE IF c = "\\" THEN "\\\\"
    ELSE c

\* json.encoder ESCAPE_DCT (ensure_ascii): how one character is written inside a JSON string
EscapeChar(c) ==
    IF c = "\"" THEN "\\\""
    ELSE IF c = "\\" THEN "\\\\"
    ELSE IF c = "\n" THEN "\\n"
    ELSE IF c = "\r" THEN "\\r"
    ELSE IF c = "\t" THEN "\\t"
    ELSE IF c = "\f" THEN "\\f"
    ELSE c

\* json.encoder py_encode_basestring_ascii: every character of s[lo..hi] replaced by its escape
RECURSIVE EscapeRange(_, _, _)
EscapeRange(s, lo, hi) ==
    IF lo > hi THEN ""
    ELSE IF lo = hi THEN EscapeChar(Ch(s, lo))
    ELSE EscapeRange(s, lo, (lo + hi) \div 2) \o EscapeRange(s, (lo + hi) \div 2 + 1, hi)

\* a str value as JSON text
DumpsStr(s) == "\"" \o EscapeRange(s, 1, Len(s)) \o "\""

\* the newline indent of nesting level n: n * indent spaces
RECURSIVE Spaces(_)
Spaces(n) == IF n = 0 THEN "" ELSE " " \o Spaces(n - 1)

\* a list of str as JSON text at nesting level n: one item per line, "[]" when empty
DumpsList(l, n) ==
    IF l = <<>> THEN "[]"
    ELSE "[\n"
         \o Join(",\n", [i \in 1..Len(l) |-> Spaces((n + 1) * JsonIndent) \o DumpsStr(l[i])])
         \o "\n" \o Spaces(n * JsonIndent) \o "]"

\* one value of the dict: design_suggestions holds a list, the other keys a str
DumpsValue(k, v, n) == IF k = "design_suggestions" THEN DumpsList(v, n) ELSE DumpsStr(v)

\* the dict as JSON text: the keys in insertion order, "key": value, one per line
DumpsDict(d, keys) ==
    IF keys = <<>> THEN "{}"
    ELSE "{\n"
         \o Join(",\n", [i \in 1..Len(keys) |->
                Spaces(JsonIndent) \o DumpsStr(keys[i]) \o ": " \o DumpsValue(keys[i], d[keys[i]], 1)])
         \o "\n}"

\* line 138
json_dumps(d, keys) == DumpsDict(d, keys)

-----------------------------------------------------------------------------
(* main.py 151: json.loads, for JSON texts made of objects, arrays and      *)
(* strings (the decoder's other value kinds never occur in the text the    *)
(* program parses; the model reports them as a decode error).              *)

Parsed(v, i) == [ok |-> TRUE, val |-> v, next |-> i]

Failed(msg) == [ok |-> FALSE, error |-> msg]

\* json.decoder WHITESPACE
IsWs(c) == c \in {" ", "\t", "\n", "\r"}

\* the first index >= i holding no whitespace (Len(s) + 1 at the end of the text)
RECURSIVE SkipWs(_, _)
SkipWs(s, i) == IF i <= Len(s) /\ IsWs(Ch(s, i)) THEN SkipWs(s, i + 1) ELSE i

\* json.decoder STRINGCHUNK: a string's plain run ends at a quote, a backslash or a control character
IsSpecial(c) == c \in {"\"", "\\", "\n", "\r", "\t", "\f"}

\* the first index >= i holding such a character (Len(s) + 1 if there is none)
NextSpecial(s, i) ==
    LET found == {j \in i..Len(s) : IsSpecial(Ch(s, j))}
    IN  IF found = {} THEN Len(s) + 1
        ELSE CHOOSE j \in found : \A k \in found : j <= k

\* json.decoder BACKSLASH: the character an escape stands for ("" for an escape the model does not decode)
Unescape(e) ==
    IF e = "\"" THEN "\""
    ELSE IF e = "\\" THEN "\\"
    ELSE IF e = "/" THEN "/"
    ELSE IF e = "n" THEN "\n"
    ELSE IF e = "r" THEN "\r"
    ELSE IF e = "t" THEN "\t"
    ELSE IF e = "f" THEN "\f"
    ELSE ""

\* json.decoder py_scanstring (strict): i is the index after the opening quote, acc what was decoded so far
RECURSIVE ScanString(_, _, _)
ScanString(s, i, acc) ==
    LET j == NextSpecial(s, i)
        chunk == acc \o SubSeq(s, i, j - 1)
    IN  IF j > Len(s) THEN Failed("Unterminated string")
        ELSE IF Ch(s, j) = "\"" THEN Parsed(chunk, j + 1)
        ELSE IF Ch(s, j) # "\\" THEN Failed("Invalid control character")
        ELSE IF j + 1 > Len(s) THEN Failed("Unterminated string")
        ELSE IF Unescape(Ch(s, j + 1)) = "" THEN Failed("Invalid \\escape")
        ELSE ScanString(s, j + 2, chunk \o Unescape(Ch(s, j + 1)))

\* the dict a sequence of (key, value) pairs builds: a repeated key keeps its last value
PairsToDict(pairs) ==
    [k \in {pairs[i][1] : i \in 1..Len(pairs)} |->
        LET at == {i \in 1..Len(pairs) : pairs[i][1] = k}
        IN  pairs[CHOOSE i \in at : \A j \in at : j <= i][2]]

RECURSIVE ParseValue(_, _), ParseArray(_, _, _), ParseObject(_, _, _)

\* json.scanner scan_once: the value starting at index i
ParseValue(s, i) ==
    IF i > Len(s) THEN Failed("Expecting value")
    ELSE IF Ch(s, i) = "\"" THEN ScanString(s, i + 1, "")
    ELSE IF Ch(s, i) = "[" THEN
        IF SkipWs(s, i + 1) <= Len(s) /\ Ch(s, SkipWs(s, i + 1)) = "]"
        THEN Parsed(<<>>, SkipWs(s, i + 1) + 1)
        ELSE ParseArray(s, i + 1, <<>>)
    ELSE IF Ch(s, i) = "{" THEN
        IF SkipWs(s, i + 1) <= Len(s) /\ Ch(s, SkipWs(s, i + 1)) = "}"
        THEN Parsed(PairsToDict(<<>>), SkipWs(s, i + 1) + 1)
        ELSE ParseObject(s, i + 1, <<>>)
    ELSE Failed("Expecting value")

\* json.decoder JSONArray: i is where the next item is expected, acc the items so far
ParseArray(s, i, acc) ==
    LET item == ParseValue(s, SkipWs(s, i))
        j == SkipWs(s, item.next)
    IN  IF ~item.ok THEN item
        ELSE IF j > Len(s) THEN Failed("Expecting ',' delimiter")
        ELSE IF Ch(s, j) = "]" THEN Parsed(Append(acc, item.val), j + 1)
        ELSE IF Ch(s, j) = "," THEN ParseArray(s, j + 1, Append(acc, item.val))
        ELSE Failed("Expecting ',' delimiter")

\* json.decoder JSONObject: i is where the next key is expected, acc the pairs so far
ParseObject(s, i, acc) ==
    LET k == SkipWs(s, i)
        key == IF k <= Len(s) /\ Ch(s, k) = "\"" THEN ScanString(s, k + 1, "")
               ELSE Failed("Expecting property name enclosed in double quotes")
        c == SkipWs(s, key.next)
        item == IF c <= Len(s) /\ Ch(s, c) = ":" THEN ParseValue(s, SkipWs(s, c + 1))
                ELSE Failed("Expecting ':' delimiter")
        j == SkipWs(s, item.next)
    IN  IF ~key.ok THEN key
        ELSE IF ~item.ok THEN item
        ELSE IF j > Len(s) THEN Failed("Expecting ',' delimiter")
        ELSE IF Ch(s, j) = "}" THEN Parsed(PairsToDict(Append(acc, <<key.val, item.val>>)), j + 1)
        ELSE IF Ch(s, j) = "," THEN ParseObject(s, j + 1, Append(acc, <<key.val, item.val>>))
        ELSE Failed("Expecting ',' delimiter")

\* line 151: json.loads: one value, surrounded by whitespace only
json_loads(s) ==
    LET v == ParseValue(s, SkipWs(s, 1))
    IN  IF ~v.ok THEN Raise("JSONDecodeError", v.error)
        ELSE IF SkipWs(s, v.next) <= Len(s) THEN Raise("JSONDecodeError", "Extra data")
        ELSE Return(v.val)

-----------------------------------------------------------------------------
(* main.py 113-138: generate_scene_content, awaited. It has no suspension   *)
(* point: the call runs from its first line to its return in one step.     *)
(* out is standard output before the call; print(x) writes x and "\n".     *)

generate_scene_content(s, out) ==
    LET call == create_curator_prompt(s)
    IN  IF call.outcome.kind = "raise"
        THEN [scene |-> call.scene, stdout |-> out, outcome |-> call.outcome]
        ELSE [scene |-> call.scene,
              stdout |-> out \o << "--- Generated Prompt for LLM ---\n",
                                   call.outcome.value \o "\n",
                                   "---------------------------------\n" >>,
              outcome |-> Return(json_dumps(mock_response, mock_keys))]

-----------------------------------------------------------------------------
(* The scenes a caller passes. *)

ObjA ==
    [ id |-> "a", name |-> "Sofa", tags |-> <<"seating", "soft">>,
      material |-> "leather", position |-> "center" ]

ObjB ==
    [ id |-> "b", name |-> "Lamp", tags |-> <<>>,
      material |-> "steel", position |-> "corner" ]

\* free text may hold anything, a line break followed by "- " included
ObjN ==
    [ id |-> "n", name |-> "Rug", tags |-> <<"wool">>,
      material |-> "wool\n- dyed", position |-> "floor" ]

BaseScene(objs) ==
    [ scene_name |-> "Loft", overall_style |-> "Plain",
      lighting |-> [type |-> "sun", source |-> "windows"],
      objects |-> objs ]

\* dict d without key k
Without(d, k) == [x \in DOMAIN d \ {k} |-> d[x]]

\* every objects list of ObjA and ObjB up to MaxObjects long (repeats included)
ObjectLists == UNION {[1..n -> {ObjA, ObjB}] : n \in 0..MaxObjects}

CompleteScenes ==
    {BaseScene(objs) : objs \in ObjectLists}
        \cup {scene_data,
              BaseScene(<<ObjN>>),
              [BaseScene(<<ObjA>>) EXCEPT !.scene_name = "Loft\n- annex"]}

\* a scene of two objects with one key of the data model absent
IncompleteScenes ==
    {Without(BaseScene(<<ObjA, ObjB>>), k) :
        k \in {"scene_name", "overall_style", "lighting", "objects"}}
        \cup {[BaseScene(<<ObjA, ObjB>>) EXCEPT !.lighting = Without(@, k)] :
                k \in {"type", "source"}}
        \cup {BaseScene(<<ObjA, Without(ObjB, k)>>) :
                k \in {"id", "name", "tags", "material", "position"}}

Scenes == CompleteScenes \cup IncompleteScenes

-----------------------------------------------------------------------------
(* The program. *)

\* what compiles main.py: CPython's script/import compiler, or a host that allows
\* await at module level (an asyncio REPL, a notebook cell, compile() with
\* PyCF_ALLOW_TOP_LEVEL_AWAIT)
Hosts == {"python", "top_level_await"}

\* __name__: run as the program, or loaded by a caller of its functions
ModuleNames == {"__main__", "main"}

Init ==
    /\ pc = "compile"
    /\ host \in Hosts
    /\ name \in ModuleNames
    /\ scene = scene_data
    /\ seen = NoCall
    /\ last = NoCall
    /\ ncalls = 0
    /\ stdout = <<>>
    /\ ret = NoCall
    /\ content_obj = NoCall

\* line 144: `await` outside a function is a SyntaxError for the script compiler;
\* the file is rejected whole and nothing of it runs
CompileError ==
    /\ pc = "compile"
    /\ host = "python"
    /\ pc' = "SyntaxError"
    /\ UNCHANGED <<host, name, scene, seen, last, ncalls, stdout, ret, content_obj>>

\* lines 6-142: the module body up to the __name__ test
CompileOk ==
    /\ pc = "compile"
    /\ host = "top_level_await"
    /\ pc' = IF name = "__main__" THEN "main" ELSE "loaded"
    /\ UNCHANGED <<host, name, scene, seen, last, ncalls, stdout, ret, content_obj>>

\* line 143
MainBanner ==
    /\ pc = "main"
    /\ stdout' = Append(stdout, "Generating 3D-aware content for the scene...\n")
    /\ pc' = "generate"
    /\ UNCHANGED <<host, name, scene, seen, last, ncalls, ret, content_obj>>

\* line 144 (with 113-138)
MainGenerate ==
    /\ pc = "generate"
    /\ LET call == generate_scene_content(scene_data, stdout)
       IN  /\ scene' = call.scene
           /\ stdout' = call.stdout
           /\ ret' = [kind |-> "call", in |-> scene_data, outcome |-> call.outcome]
           /\ pc' = IF call.outcome.kind = "raise" THEN call.outcome.error ELSE "print_json"
    /\ UNCHANGED <<host, name, seen, last, ncalls, content_obj>>

\* lines 146-148
MainPrintJson ==
    /\ pc = "print_json"
    /\ stdout' = stdout \o << "\n--- Generated Content (JSON Output) ---\n",
                              ret.outcome.value \o "\n",
                              "--------------------------------------\n" >>
    /\ pc' = "loads"
    /\ UNCHANGED <<host, name, scene, seen, last, ncalls, ret, content_obj>>

\* line 151
MainLoads ==
    /\ pc = "loads"
    /\ content_obj' = json_loads(ret.outcome.value)
    /\ pc' = IF content_obj'.kind = "raise" THEN content_obj'.error ELSE "print_title"
    /\ UNCHANGED <<host, name, scene, seen, last, ncalls, stdout, ret>>

\* line 152
MainPrintTitle ==
    /\ pc = "print_title"
    /\ IF Has(content_obj.value, "title")
       THEN /\ stdout' = Append(stdout, "\nTitle: " \o content_obj.value["title"] \o "\n")
            /\ pc' = "done"
       ELSE /\ stdout' = stdout
            /\ pc' = "KeyError"
    /\ UNCHANGED <<host, name, scene, seen, last, ncalls, ret, content_obj>>

\* a caller of the loaded module: create_curator_prompt(s) (lines 68-105)
Compose(s) ==
    /\ pc \in {"loaded", "composing"}
    /\ ncalls < MaxCalls
    /\ LET call == create_curator_prompt(s)
       IN  /\ scene' = call.scene
           /\ last' = [kind |-> "call", in |-> s, outcome |-> call.outcome]
    /\ seen' \in (IF seen = NoCall THEN {last} ELSE {seen, last})
    /\ ncalls' = ncalls + 1
    /\ pc' = "composing"
    /\ UNCHANGED <<host, name, stdout, ret, content_obj>>

\* a caller of the loaded module: await generate_scene_content(s) (lines 109-138)
Generate(s) ==
    /\ pc = "loaded"
    /\ LET call == generate_scene_content(s, stdout)
       IN  /\ scene' = call.scene
           /\ stdout' = call.stdout
           /\ ret' = [kind |-> "call", in |-> s, outcome |-> call.outcome]
    /\ pc' = "generated"
    /\ UNCHANGED <<host, name, seen, last, ncalls, content_obj>>

Next ==
    \/ CompileError
    \/ CompileOk
    \/ MainBanner
    \/ MainGenerate
    \/ MainPrintJson
    \/ MainLoads
    \/ MainPrintTitle
    \/ \E s \in Scenes : Compose(s)
    \/ \E s \in Scenes : Generate(s)

Spec == Init /\ [][Next]_vars

-----------------------------------------------------------------------------
(* Vocabulary of the properties. *)

\* text t holds sub somewhere
Contains(t, sub) ==
    \E i \in 1..(Len(t) + 1 - Len(sub)) : SubSeq(t, i, i + Len(sub) - 1) = sub

\* the number of lines of t (split at "\n") that start with "- "
DashLines(t) ==
    Cardinality({i \in 1..(Len(t) - 1) :
        SubSeq(t, i, i + 1) = "- " /\ (i = 1 \/ Ch(t, i - 1) = "\n")})

HasLineBreak(t) == \E i \in 1..Len(t) : Ch(t, i) = "\n"

\* a create_curator_prompt call that returned a prompt
Returned(c) == c.kind = "call" /\ c.outcome.kind = "return"

\* some field of the data model is absent from scene s
MissingRequired(s) ==
    \/ {"scene_name", "overall_style", "lighting", "objects"} \ DOMAIN s # {}
    \/ Has(s, "lighting") /\ {"type", "source"} \ DOMAIN s["lighting"] # {}
    \/ Has(s, "objects") /\ \E i \in 1..Len(s["objects"]) :
            {"id", "name", "tags", "material", "position"} \ DOMAIN s["objects"][i] # {}

\* some field the composer reads is absent from scene s
MissingRead(s) ==
    \/ {"scene_name", "overall_style", "lighting", "objects"} \ DOMAIN s # {}
    \/ Has(s, "lighting") /\ {"type", "source"} \ DOMAIN s["lighting"] # {}
    \/ Has(s, "objects") /\ \E i \in 1..Len(s["objects"]) :
            {"name", "tags", "material", "position"} \ DOMAIN s["objects"][i] # {}

\* no free-text field of the complete scene s holds a line break
NoLineBreak(s) ==
    /\ ~HasLineBreak(s["scene_name"]) /\ ~HasLineBreak(s["overall_style"])
    /\ ~HasLineBreak(s["lighting"]["type"]) /\ ~HasLineBreak(s["lighting"]["source"])
    /\ \A i \in 1..Len(s["objects"]) :
        LET o == s["objects"][i]
        IN  /\ ~HasLineBreak(o["name"]) /\ ~HasLineBreak(o["material"])
            /\ ~HasLineBreak(o["position"])
            /\ \A j \in 1..Len(o["tags"]) : ~HasLineBreak(o["tags"][j])

\* the first n tags, each after the first preceded by ", "
RECURSIVE ExpectedTags(_, _)
ExpectedTags(tags, n) ==
    IF n = 0 THEN ""
    ELSE IF n = 1 THEN tags[1]
    ELSE ExpectedTags(tags, n - 1) \o ", " \o tags[n]

\* the line the specification gives for object o
ExpectedLine(o) ==
    "- " \o o["name"] \o ": Made of " \o o["material"] \o ". Positioned at: "
         \o o["position"] \o ". Tags: " \o ExpectedTags(o["tags"], Len(o["tags"])) \o "."

\* the lines of the first n objects, in list order, each after the first on a new line
RECURSIVE ExpectedBlock(_, _)
ExpectedBlock(objs, n) ==
    IF n = 0 THEN ""
    ELSE IF n = 1 THEN ExpectedLine(objs[1])
    ELSE ExpectedBlock(objs, n - 1) \o "\n" \o ExpectedLine(objs[n])

\* the prompt holds exactly block between the objects heading and the task heading
BlockIs(prompt, block) ==
    Contains(prompt, "    - Objects in Scene:\n    " \o block
                        \o "\n\n    **Task & Output Structure:**\n")

-----------------------------------------------------------------------------
(* The properties. *)

\* C1 (as stated): for a scene of N objects the returned prompt has exactly N lines
\* that start with "- ".
C1_DashLinesEqualObjects ==
    Returned(last) => DashLines(last.outcome.value) = Len(last.in["objects"])

\* C1 (amended): for a scene of N objects whose text fields hold no line break, the
\* returned prompt has exactly N - 1 lines that start with "- " when N >= 1 and none
\* when N = 0: the first object line follows the template's four spaces of indent
\* and so starts with "    - ".
C1_DashLinesAfterIndent ==
    (Returned(last) /\ NoLineBreak(last.in)) =>
        LET objs == last.in["objects"]
            out == last.outcome.value
        IN  /\ DashLines(out) = IF objs = <<>> THEN 0 ELSE Len(objs) - 1
            /\ objs # <<>> =>
                Contains(out, "\n    - Objects in Scene:\n    - " \o objs[1]["name"] \o ": Made of ")

C1_Witness ==
    /\ Returned(last) /\ NoLineBreak(last.in)
    /\ Len(last.in["objects"]) >= 2
    /\ DashLines(last.outcome.value) >= 1

\* C2: the object block of the returned prompt is one line per object of
\* scene.objects, in list order, joined by "\n", nothing reordered and nothing
\* dropped; the i-th line is
\* "- {name}: Made of {material}. Positioned at: {position}. Tags: {tags joined by ", "}."
C2_OrderPreserving ==
    Returned(last) =>
        BlockIs(last.outcome.value,
                ExpectedBlock(last.in["objects"], Len(last.in["objects"])))

C2_Witness ==
    /\ Returned(last)
    /\ \E i, j \in 1..Len(last.in["objects"]) :
        /\ i < j
        /\ last.in["objects"][i] = last.in["objects"][j]
        /\ Len(last.in["objects"][i]["tags"]) >= 2

\* C4: a call of create_curator_prompt leaves its argument as it was passed: the
\* scene dict after the call equals the scene passed, field by field and in order.
C4_InputNotMutated ==
    /\ (pc = "composing" => scene = last.in)
    /\ (pc = "generated" => scene = ret.in)

C4_Witness ==
    /\ pc = "composing" /\ Returned(last)
    /\ Len(last.in["objects"]) >= 2
    /\ scene = last.in

\* Two calls the caller made with the same scene, the kept one and the last one
\* (adjacent, or with another call between them), have the same outcome. The
\* outcome is PromptOutcome of the argument alone, which reads no variable, so
\* this says only that the model gives the composer no state to read.
SameSceneSameOutcome ==
    (seen.kind = "call" /\ last.kind = "call" /\ seen.in = last.in) =>
        seen.outcome = last.outcome

\* C6: for a complete scene whose objects list is empty the call returns a prompt,
\* and the object block of that prompt is the empty string.
C6_EmptyScene ==
    (last.kind = "call" /\ ~MissingRead(last.in) /\ last.in["objects"] = <<>>) =>
        /\ Returned(last)
        /\ BlockIs(last.outcome.value, "")

C6_Witness ==
    /\ Returned(last)
    /\ last.in["objects"] = <<>>
    /\ BlockIs(last.outcome.value, "")

\* C7: json.loads of the JSON text generate_scene_content returns gives back the
\* mock response: the same three keys, equal title and narrative, and the same
\* design suggestions in the same order.
C7_MockRoundTrip ==
    content_obj.kind # "none" =>
        /\ content_obj.kind = "return"
        /\ DOMAIN content_obj.value = {"title", "narrative", "design_suggestions"}
        /\ content_obj.value["title"] = mock_response["title"]
        /\ content_obj.value["narrative"] = mock_response["narrative"]
        /\ content_obj.value["design_suggestions"] = mock_response["design_suggestions"]

C7_Witness ==
    /\ pc = "done"
    /\ content_obj.kind = "return"
    /\ Len(content_obj.value["design_suggestions"]) = Len(mock_response["design_suggestions"])
    /\ HasLineBreak(content_obj.value["narrative"])

\* C8: the prompt made of the loft scene literal holds the text
\* "- Leather Sofa: Made of Distressed brown leather. Positioned at: Center of the
\* room, facing the windows. Tags: seating, main furniture, comfortable.", the scene
\* name "Modern Loft Living Room" and the style "Minimalist, Industrial".
C8_SeedFixture ==
    (last.kind = "call" /\ last.in = scene_data) =>
        /\ Returned(last)
        /\ Contains(last.outcome.value,
                    "- Leather Sofa: Made of Distressed brown leather. Positioned at: Center of the room, facing the windows. Tags: seating, main furniture, comfortable.")
        /\ Contains(last.outcome.value, "Modern Loft Living Room")
        /\ Contains(last.outcome.value, "Minimalist, Industrial")

C8_Witness ==
    /\ Returned(last)
    /\ last.in = scene_data
    /\ Contains(last.outcome.value, "- Leather Sofa: Made of Distressed brown leather.")

\* C9: every prompt create_curator_prompt returns holds the three markers "title",
\* "narrative" and "design_suggestions", each with its double quotes.
C9_TemplateComplete ==
    Returned(last) =>
        /\ Contains(last.outcome.value, "\"title\"")
        /\ Contains(last.outcome.value, "\"narrative\"")
        /\ Contains(last.outcome.value, "\"design_suggestions\"")

C9_Witness ==
    /\ Returned(last)
    /\ ~NoLineBreak(last.in)
    /\ Contains(last.outcome.value, "\"design_suggestions\"")

\* C10 (as stated): when any field of the data model is absent (the scene's name,
\* style, lighting, lighting kind or source, objects, or an object's identifier,
\* name, tags, material or position), create_curator_prompt raises instead of
\* returning a prompt, and generate_scene_content prints nothing and returns nothing.
C10_AnyMissingFieldFails ==
    /\ (last.kind = "call" /\ MissingRequired(last.in)) => last.outcome.kind = "raise"
    /\ (pc = "generated" /\ MissingRequired(ret.in)) =>
            (ret.outcome.kind = "raise" /\ stdout = <<>>)

\* C10 (amended): when a field the composer reads is absent (the scene's name,
\* style, lighting, lighting kind or source, objects, or an object's name, tags,
\* material or position), create_curator_prompt raises KeyError instead of returning
\* a prompt, and generate_scene_content prints nothing and returns nothing; an
\* object's identifier is never read, and a scene that lacks only identifiers is
\* rendered in full.
C10_MissingReadFieldFails ==
    /\ (last.kind = "call" /\ MissingRead(last.in)) =>
            (last.outcome.kind = "raise" /\ last.outcome.error = "KeyError")
    /\ (pc = "generated" /\ MissingRead(ret.in)) =>
            (ret.outcome.kind = "raise" /\ ret.outcome.error = "KeyError" /\ stdout = <<>>)
    /\ (last.kind = "call" /\ MissingRequired(last.in) /\ ~MissingRead(last.in)) =>
            /\ Returned(last)
            /\ BlockIs(last.outcome.value,
                       ExpectedBlock(last.in["objects"], Len(last.in["objects"])))

C10_Witness ==
    /\ pc = "generated"
    /\ MissingRead(ret.in)
    /\ ret.outcome.kind = "raise"
    /\ stdout = <<>>

\* positions of the main block at which the program is still running
Running == {"compile", "main", "generate", "print_json", "loads", "print_title"}

\* standard output holds the prompt, later the JSON text, later the title line
OutputInOrder ==
    \E i, j, k \in 1..Len(stdout) :
        /\ i < j /\ j < k
        /\ ret.kind = "call" /\ ret.outcome.kind = "return"
        /\ stdout[i] = Prompt(scene_data) \o "\n"
        /\ stdout[j] = ret.outcome.value \o "\n"
        /\ stdout[k] = "\nTitle: " \o mock_response["title"] \o "\n"

\* C3: a run of the program writes the composed prompt, later the pretty-printed
\* JSON of the mock response, later the line "Title: ...", and then terminates.
C3_OutputSequence ==
    (name = "__main__" /\ pc \notin Running) => (pc = "done" /\ OutputInOrder)

=============================================================================
